---- MODULE Spec2Model ----
(***************************************************************************)
(* Model of the client-side encryption utilities of the gallery:          *)
(*   src/unnamed/part_000     (generateEncryptionKey, encryptData,         *)
(*                             encryptFile, decryptData and helpers)       *)
(*   src/utils/encryption.ts  (generateEncryptionKey, encryptImage,        *)
(*                             decryptImage)                               *)
(*                                                                         *)
(* A JavaScript string is a sequence of one-character strings, a           *)
(* Uint8Array a sequence of integers in 0..255.  The platform functions    *)
(* the code calls (atob, btoa, parseInt, crypto.subtle) are modelled by    *)
(* what their standards say they do; AES-GCM itself is replaced by a small *)
(* authenticated cipher with the same interface (see GcmSeal).             *)
(***************************************************************************)
EXTENDS Integers, Sequences, FiniteSets, TLC

----------------------------------------------------------------------------
(* Strings                                                                 *)

Marker == <<"b", "a", "s", "e", "6", "4", ",">>

DefaultPrefix == <<"d", "a", "t", "a", ":", "a", "p", "p", "l", "i", "c", "a", "t", "i", "o", "n", "/", "o", "c", "t", "e", "t", "-", "s", "t", "r", "e", "a", "m", ";", "b", "a", "s", "e", "6", "4", ",">>

PngPrefix == <<"d", "a", "t", "a", ":", "i", "m", "a", "g", "e", "/", "p", "n", "g", ";", "b", "a", "s", "e", "6", "4", ",">>

TextPrefix == <<"d", "a", "t", "a", ":", "t", "e", "x", "t", "/", "p", "l", "a", "i", "n", ";", "b", "a", "s", "e", "6", "4", ",">>

WhiteSpace == {" ", "\t", "\n", "\r", "\f"}

\* s.substring(from - 1, to) with 1-based inclusive bounds
Slice(s, from, to) == IF from > to THEN << >> ELSE SubSeq(s, from, to)

\* does m occur in s at (1-based) position i
MatchAt(s, m, i) ==
  /\ i >= 1
  /\ i + Len(m) - 1 <= Len(s)
  /\ \A k \in 1..Len(m) : s[i + k - 1] = m[k]

\* s.indexOf(m, from): the first position >= from where m occurs, 0 when none
IndexOf(s, m, from) ==
  LET hits == {i \in from..(Len(s) - Len(m) + 1) : MatchAt(s, m, i)}
  IN  IF hits = {} THEN 0 ELSE CHOOSE i \in hits : \A j \in hits : i <= j

\* s.includes(m)
Includes(s, m) == IndexOf(s, m, 1) # 0

\* s.startsWith(m)
StartsWith(s, m) == MatchAt(s, m, 1)

\* s.split(m)[0] and s.split(m)[1], for an s that includes m: the text before
\* the first occurrence, and the text between the first and the second one
\* (up to the end of s when there is no second one)
SplitPart0(s, m) == Slice(s, 1, IndexOf(s, m, 1) - 1)

SplitPart1(s, m) ==
  LET first == IndexOf(s, m, 1)
      start == first + Len(m)
      second == IndexOf(s, m, start)
  IN  IF second = 0 THEN Slice(s, start, Len(s)) ELSE Slice(s, start, second - 1)

\* s.trim() === ""
IsBlank(s) == \A i \in 1..Len(s) : s[i] \in WhiteSpace

\* !s for a string s
IsEmptyString(s) == Len(s) = 0

----------------------------------------------------------------------------
(* Hexadecimal                                                             *)

HexLower == <<"0", "1", "2", "3", "4", "5", "6", "7", "8", "9", "a", "b", "c", "d", "e", "f">>

HexUpper == <<"0", "1", "2", "3", "4", "5", "6", "7", "8", "9", "A", "B", "C", "D", "E", "F">>

HexDigits == {HexLower[i] : i \in 1..16} \cup {HexUpper[i] : i \in 1..16}

\* the value of every hex digit, of either case
HexValues ==
  [c \in HexDigits |-> (CHOOSE i \in 1..16 : HexLower[i] = c \/ HexUpper[i] = c) - 1]

IsHexDigit(c) == c \in HexDigits

HexValue(c) == HexValues[c]

\* b.toString(16) without the padding to two digits
ByteToHexNoPad(b) ==
  IF b < 16 THEN <<HexLower[b + 1]>> ELSE <<HexLower[(b \div 16) + 1], HexLower[(b % 16) + 1]>>

\* b.toString(16).padStart(2, "0")
ByteToHex(b) == <<HexLower[(b \div 16) + 1], HexLower[(b % 16) + 1]>>

RECURSIVE Concat(_)
\* Array.prototype.join("") of an array of strings
Concat(ss) == IF Len(ss) = 0 THEN << >> ELSE Head(ss) \o Concat(Tail(ss))

\* bufferToHexString, and the inline conversion of utils/encryption.ts
bufferToHexString(buffer) == Concat([i \in 1..Len(buffer) |-> ByteToHex(buffer[i])])

RECURSIVE HexPairsFrom(_, _)
\* hexString.match(/[\da-f]{2}/gi): scanning from position i, every pair of
\* adjacent hex digits is a match and the scan resumes behind it; any other
\* character is stepped over
HexPairsFrom(s, i) ==
  IF i + 1 > Len(s) THEN << >>
  ELSE IF IsHexDigit(s[i]) /\ IsHexDigit(s[i + 1])
       THEN <<HexValue(s[i]) * 16 + HexValue(s[i + 1])>> \o HexPairsFrom(s, i + 2)
       ELSE HexPairsFrom(s, i + 1)

\* hexStringToBuffer of part_000
hexStringToBuffer(hexString) == HexPairsFrom(hexString, 1)

\* Number.parseInt(chunk, 16) stored into a Uint8Array, for a chunk of one or
\* two characters: the longest prefix of hex digits is converted, and NaN
\* (no such prefix) is stored as 0
ParseIntByte(chunk) ==
  IF Len(chunk) = 0 \/ ~IsHexDigit(chunk[1]) THEN 0
  ELSE IF Len(chunk) = 1 \/ ~IsHexDigit(chunk[2]) THEN HexValue(chunk[1])
  ELSE HexValue(chunk[1]) * 16 + HexValue(chunk[2])

\* new Uint8Array((key.match(/.{1,2}/g) || []).map(b => parseInt(b, 16))):
\* the key is cut into chunks of two characters (the last one may have one)
inlineKeyDecode(key) ==
  [k \in 1..((Len(key) + 1) \div 2) |->
     ParseIntByte(Slice(key, 2 * k - 1, IF 2 * k <= Len(key) THEN 2 * k ELSE 2 * k - 1))]

----------------------------------------------------------------------------
(* Base64                                                                  *)

B64Chars == <<"A", "B", "C", "D", "E", "F", "G", "H", "I", "J", "K", "L", "M", "N", "O", "P", "Q", "R", "S", "T", "U", "V", "W", "X", "Y", "Z", "a", "b", "c", "d", "e", "f", "g", "h", "i", "j", "k", "l", "m", "n", "o", "p", "q", "r", "s", "t", "u", "v", "w", "x", "y", "z", "0", "1", "2", "3", "4", "5", "6", "7", "8", "9", "+", "/">>

B64Alphabet == {B64Chars[i] : i \in 1..64}

\* the 6-bit value of every character of the alphabet
B64Values == [c \in B64Alphabet |-> (CHOOSE i \in 1..64 : B64Chars[i] = c) - 1]

IsB64Char(c) == c \in B64Alphabet

B64Value(c) == B64Values[c]

\* btoa of the binary string whose char codes are the given bytes
btoa(bytes) ==
  LET n == Len(bytes)
      At(i) == IF i <= n THEN bytes[i] ELSE 0
      Group(g) == At(3 * g + 1) * 65536 + At(3 * g + 2) * 256 + At(3 * g + 3)
  IN  [k \in 1..(4 * ((n + 2) \div 3)) |->
         LET g == (k - 1) \div 4
             j == (k - 1) % 4
         IN  IF (j = 2 /\ 3 * g + 2 > n) \/ (j = 3 /\ 3 * g + 3 > n)
             THEN "="
             ELSE B64Chars[((Group(g) \div (64 ^ (3 - j))) % 64) + 1]]

\* the string without its ASCII whitespace
StripWhiteSpace(s) == SelectSeq(s, LAMBDA c : c \notin WhiteSpace)

\* atob (the forgiving-base64 decode of the HTML standard): whitespace is
\* removed; when the length is then a multiple of 4, one or two trailing "="
\* are removed; a length of 1 modulo 4 or a character outside the alphabet is
\* an InvalidCharacterError; surplus bits of the last character are dropped
atob(s) ==
  LET t == StripWhiteSpace(s)
      n0 == Len(t)
      cut == IF n0 % 4 = 0 /\ n0 >= 1 /\ t[n0] = "="
             THEN (IF n0 >= 2 /\ t[n0 - 1] = "=" THEN 2 ELSE 1)
             ELSE 0
      u == Slice(t, 1, n0 - cut)
      n == Len(u)
      Sx(i) == IF i <= n THEN B64Value(u[i]) ELSE 0
      Group(g) == Sx(4 * g + 1) * 262144 + Sx(4 * g + 2) * 4096
                  + Sx(4 * g + 3) * 64 + Sx(4 * g + 4)
  IN  IF n % 4 = 1 \/ \E i \in 1..n : ~IsB64Char(u[i])
      THEN [ok |-> FALSE, bytes |-> << >>]
      ELSE [ok |-> TRUE,
            bytes |-> [m \in 1..((n * 6) \div 8) |->
                         (Group((m - 1) \div 3) \div (256 ^ (2 - ((m - 1) % 3)))) % 256]]

----------------------------------------------------------------------------
(* crypto.getRandomValues and crypto.subtle                                *)

KeyLength == 32

IvLength == 12

TagLength == 16

\* the entropy source can return NumSeeds different keys and NumIvs
\* different nonces
NumSeeds == 2

NumIvs == 2

Seeds == 0..(NumSeeds - 1)

IvSeeds == 0..(NumIvs - 1)

\* crypto.getRandomValues(new Uint8Array(n)): the bytes drawn for a seed
RandomBytes(seed, n) == [i \in 1..n |-> (seed * 97 + i * (2 * seed + 1) * 13) % 256]

\* the key sizes of AES (importKey of a raw key throws DataError for any
\* other size; the "length" member of the algorithm argument is not read)
AesKeyLengths == {16, 24, 32}

\* crypto.subtle.importKey("raw", keyData, {name: "AES-GCM", ...}) succeeds
importKey(keyData) == Len(keyData) \in AesKeyLengths

RECURSIVE WeightedSumFrom(_, _, _)
WeightedSumFrom(s, k, i) ==
  IF i > Len(s) THEN 0 ELSE (2 * (k + i) + 1) * s[i] + WeightedSumFrom(s, k, i + 1)

\* sum of (2(k + i) + 1) * s[i] over the elements of s: every weight is odd
WeightedSum(s, k) == WeightedSumFrom(s, k, 1)

\* Stand-in for AES-GCM.  It has the interface and the lengths of the real
\* cipher (ciphertext as long as the plaintext, followed by a 16-byte tag
\* that depends on key, nonce and ciphertext) and is invertible under the
\* same key and nonce.
GcmStreamBase(key, iv) == (WeightedSum(key, 0) + WeightedSum(iv, 0)) % 256

GcmTag(key, iv, ct) ==
  LET mix == (5 * Len(key) + WeightedSum(iv, 0) + WeightedSum(ct, IvLength)) % 256
  IN  [j \in 1..TagLength |->
         (key[((j - 1) % Len(key)) + 1] + 3 * key[((j + 15) % Len(key)) + 1]
            + mix + j) % 256]

\* crypto.subtle.encrypt({name: "AES-GCM", iv}, cryptoKey, data)
GcmSeal(key, iv, pt) ==
  LET base == GcmStreamBase(key, iv)
      ct == [i \in 1..Len(pt) |-> (pt[i] + base + 7 * i) % 256]
  IN  ct \o GcmTag(key, iv, ct)

\* decryption in a mode without authentication: the last TagLength bytes are
\* dropped unchecked
GcmOpenUnverified(key, iv, data) ==
  LET n == Len(data) - TagLength
      base == GcmStreamBase(key, iv)
  IN  IF n < 0 THEN [ok |-> FALSE, bytes |-> << >>]
      ELSE [ok |-> TRUE, bytes |-> [i \in 1..n |-> (data[i] - base - 7 * i) % 256]]

\* crypto.subtle.decrypt({name: "AES-GCM", iv}, cryptoKey, data): throws
\* OperationError unless data ends with the tag of its ciphertext
GcmOpen(key, iv, data) ==
  LET n == Len(data) - TagLength
      ct == Slice(data, 1, n)
      tag == Slice(data, n + 1, Len(data))
      base == GcmStreamBase(key, iv)
  IN  IF n < 0 \/ tag # GcmTag(key, iv, ct)
      THEN [ok |-> FALSE, bytes |-> << >>]
      ELSE [ok |-> TRUE,
            bytes |-> [i \in 1..n |-> (ct[i] - base - 7 * i) % 256]]

----------------------------------------------------------------------------
(* Results of the calls                                                    *)

\* a resolved promise
Ok(value) == [ok |-> TRUE, value |-> value, error |-> "none"]

\* a rejected promise; error names the exception that the catch block wraps
Fail(error) == [ok |-> FALSE, value |-> << >>, error |-> error]

\* an optional key argument
NoKey == [given |-> FALSE, str |-> << >>]

SomeKey(str) == [given |-> TRUE, str |-> str]

----------------------------------------------------------------------------
(* part_000: the file encryption utility                                   *)

\* generateEncryptionKey (both modules): the hex string of the drawn bytes
generateEncryptionKey(drawn) == bufferToHexString(drawn)

\* base64ToArrayBuffer
base64ToArrayBuffer(base64) ==
  IF IsEmptyString(base64) THEN [ok |-> TRUE, bytes |-> << >>]
  ELSE LET base64String == IF Includes(base64, Marker)
                           THEN SplitPart1(base64, Marker) ELSE base64
       IN  atob(base64String)

\* arrayBufferToBase64
arrayBufferToBase64(buffer) == btoa(buffer)

\* the prefix without the marker that split() removed
SplitPrefixNoMarker(data) ==
  IF Includes(data, Marker) THEN SplitPart0(data, Marker) ELSE << >>

\* the prefix and the payload that encrypt and decrypt take from their input
SplitPrefix(data) ==
  IF Includes(data, Marker) THEN SplitPart0(data, Marker) \o Marker ELSE << >>

SplitPayload(data) ==
  IF Includes(data, Marker) THEN SplitPart1(data, Marker) ELSE data

\* options.key || generateEncryptionKey()
KeyOrGenerated(keyArg, fresh) ==
  IF keyArg.given /\ ~IsEmptyString(keyArg.str) THEN keyArg.str ELSE fresh

\* a frame whose first IvLength bytes were never written
FrameIvNotCopied(iv, sealed) == [i \in 1..Len(iv) |-> 0] \o sealed

\* iv followed by the output of the cipher
Frame(iv, sealed) == iv \o sealed

\* crypto.getRandomValues(new Uint8Array(12)): the nonce drawn for a seed
DrawIv(n) == RandomBytes(n, IvLength)

\* encryptData(data, {key}): fresh is the key generateEncryptionKey would
\* return in this call, iv the nonce getRandomValues returns in this call
encryptData(data, keyArg, fresh, iv) ==
  LET prefix == SplitPrefix(data)
      base64Data == SplitPayload(data)
      key == KeyOrGenerated(keyArg, fresh)
      keyData == hexStringToBuffer(key)
      dataBuffer == base64ToArrayBuffer(base64Data)
  IN  IF ~importKey(keyData) THEN Fail("DataError")
      ELSE IF ~dataBuffer.ok THEN Fail("Invalid base64 encoding")
      ELSE Ok(prefix \o arrayBufferToBase64(Frame(iv, GcmSeal(keyData, iv, dataBuffer.bytes))))

\* the crypto.subtle operations encryptData calls, in the order it calls
\* them, until it returns or throws
encryptDataSteps(data, keyArg, fresh) ==
  LET key == KeyOrGenerated(keyArg, fresh)
      keyData == hexStringToBuffer(key)
      dataBuffer == base64ToArrayBuffer(SplitPayload(data))
  IN  IF ~importKey(keyData) THEN <<"importKey">>
      ELSE IF ~dataBuffer.ok THEN <<"importKey">>
      ELSE <<"importKey", "encrypt">>

\* fileToDataUrl: FileReader.readAsDataURL of a file of the given type
fileToDataUrl(file) ==
  <<"d", "a", "t", "a", ":">> \o file.type \o <<";">> \o Marker \o btoa(file.bytes)

\* the nonce cut one byte short
SliceIvShort(encryptedArray) == Slice(encryptedArray, 1, IvLength - 1)

\* iv and content as decrypt cuts them from the decoded input
SliceIv(encryptedArray) == Slice(encryptedArray, 1, IvLength)

\* the content cut one byte too early
SliceContentOffByOne(encryptedArray) == Slice(encryptedArray, IvLength, Len(encryptedArray))

SliceContent(encryptedArray) == Slice(encryptedArray, IvLength + 1, Len(encryptedArray))

\* a catch block that logs the error and returns an empty string
decryptDataCatchSwallow(error) == Ok(<< >>)

\* the catch block of decryptData: the error is thrown again, wrapped
decryptDataCatch(error) == Fail(error)

\* a payload check that does not trim: only the empty string counts as missing
PayloadMissingNoTrim(base64Data) == IsEmptyString(base64Data)

\* !base64Data || base64Data.trim() === "": the check both decrypt functions
\* make on the payload before they touch the key
PayloadMissing(base64Data) == IsEmptyString(base64Data) \/ IsBlank(base64Data)

\* decryptData(encryptedData, {key})
decryptData(encryptedData, key) ==
  LET hasMarker == Includes(encryptedData, Marker)
      prefix == IF hasMarker THEN SplitPart0(encryptedData, Marker) \o Marker
                ELSE DefaultPrefix
      base64Data == SplitPayload(encryptedData)
      keyData == hexStringToBuffer(key)
      encryptedBuffer == base64ToArrayBuffer(base64Data)
      encryptedArray == encryptedBuffer.bytes
      opened == GcmOpen(keyData, SliceIv(encryptedArray), SliceContent(encryptedArray))
  IN  IF IsEmptyString(encryptedData) THEN decryptDataCatch("No encrypted data provided")
      ELSE IF PayloadMissing(base64Data) THEN decryptDataCatch("Invalid base64 data")
      ELSE IF ~importKey(keyData) THEN decryptDataCatch("DataError")
      ELSE IF ~encryptedBuffer.ok THEN decryptDataCatch("Invalid base64 encoding")
      ELSE IF Len(encryptedArray) <= IvLength THEN decryptDataCatch("Encrypted data is too short")
      ELSE IF ~opened.ok THEN decryptDataCatch("OperationError")
      ELSE Ok(prefix \o arrayBufferToBase64(opened.bytes))

\* the crypto.subtle operations decryptData calls, in the order it calls them
decryptDataSteps(encryptedData, key) ==
  LET base64Data == SplitPayload(encryptedData)
      keyData == hexStringToBuffer(key)
      encryptedBuffer == base64ToArrayBuffer(base64Data)
  IN  IF IsEmptyString(encryptedData) THEN << >>
      ELSE IF PayloadMissing(base64Data) THEN << >>
      ELSE IF ~importKey(keyData) THEN <<"importKey">>
      ELSE IF ~encryptedBuffer.ok THEN <<"importKey">>
      ELSE IF Len(encryptedBuffer.bytes) <= IvLength THEN <<"importKey">>
      ELSE <<"importKey", "decrypt">>

----------------------------------------------------------------------------
(* utils/encryption.ts: the image encryption used by the uploader          *)

\* encryptImage(imageData, key)
encryptImage(imageData, key, iv) ==
  LET prefix == SplitPrefix(imageData)
      base64Data == SplitPayload(imageData)
      keyData == inlineKeyDecode(key)
      binary == atob(base64Data)
  IN  IF ~importKey(keyData) THEN Fail("DataError")
      ELSE IF ~binary.ok THEN Fail("InvalidCharacterError")
      ELSE Ok(prefix \o btoa(Frame(iv, GcmSeal(keyData, iv, binary.bytes))))

\* the crypto.subtle operations encryptImage calls, in the order it calls them
encryptImageSteps(imageData, key) ==
  LET keyData == inlineKeyDecode(key)
      binary == atob(SplitPayload(imageData))
  IN  IF ~importKey(keyData) THEN <<"importKey">>
      ELSE IF ~binary.ok THEN <<"importKey">>
      ELSE <<"importKey", "encrypt">>

\* the catch block of decryptImage: the error is thrown again, wrapped
decryptImageCatch(error) == Fail(error)

\* decryptImage(encryptedData, key)
decryptImage(encryptedData, key) ==
  LET prefix == SplitPrefix(encryptedData)
      base64Data == SplitPayload(encryptedData)
      keyData == inlineKeyDecode(key)
      binary == atob(base64Data)
      bytes == binary.bytes
      opened == GcmOpen(keyData, SliceIv(bytes), SliceContent(bytes))
  IN  IF IsEmptyString(encryptedData) THEN decryptImageCatch("No encrypted data provided")
      ELSE IF PayloadMissing(base64Data) THEN decryptImageCatch("Invalid base64 data")
      ELSE IF ~importKey(keyData) THEN decryptImageCatch("DataError")
      ELSE IF ~binary.ok THEN decryptImageCatch("InvalidCharacterError")
      ELSE IF Len(bytes) <= IvLength THEN decryptImageCatch("Encrypted data is too short")
      ELSE IF ~opened.ok THEN decryptImageCatch("OperationError")
      ELSE Ok(prefix \o btoa(opened.bytes))

\* the crypto.subtle operations decryptImage calls, in the order it calls them
decryptImageSteps(encryptedData, key) ==
  LET base64Data == SplitPayload(encryptedData)
      keyData == inlineKeyDecode(key)
      binary == atob(base64Data)
  IN  IF IsEmptyString(encryptedData) THEN << >>
      ELSE IF PayloadMissing(base64Data) THEN << >>
      ELSE IF ~importKey(keyData) THEN <<"importKey">>
      ELSE IF ~binary.ok THEN <<"importKey">>
      ELSE IF Len(binary.bytes) <= IvLength THEN <<"importKey">>
      ELSE <<"importKey", "decrypt">>

----------------------------------------------------------------------------
(* The calls made by a client of the two modules.  Neither module keeps    *)
(* state; the variables hold what a client sees in one session: it         *)
(* generates keys, encrypts, stores the string, and decrypts what it reads *)
(* back.                                                                   *)

VARIABLES
  genCall,   \* the last generateEncryptionKey call: bytes drawn, key returned
  encCall,   \* the last encrypt call: arguments, nonce drawn, what it returned
  history,   \* key bytes, nonce and output of every encrypt call so far
  wire,      \* the encrypted string as stored between encrypt and decrypt
  decCall,   \* the decrypt call: arguments and what it returned
  asyncCalls,     \* the encrypt and decrypt calls that run concurrently
  frames,    \* the local bindings of each of those calls
  session,   \* the user signed in in the browser, or NoUser
  clock,     \* Date.now() in the browser, in ms since the page was loaded
  cachedImages,   \* the module-level cache of nillion-service.ts
  lastFetchTime,  \* the module-level time stamp of that cache
  fetch,     \* the getImages calls in flight, by slot
  returned,  \* what the last getImages call returned
  response,  \* the last response of GET /api/nillion/images/[id]
  clears,    \* how often clearCache was called
  lastSuccess,    \* the last getImages request that succeeded since then
  store,     \* the records in the SecretVault collection
  served,    \* the last answer of the middleware
  job,       \* the handleSubmit call of the uploader
  auth       \* the state of SupabaseProvider and its initialization effect

vars == <<genCall, encCall, history, wire, decCall, asyncCalls, frames,
          session, clock, cachedImages, lastFetchTime, fetch, returned, response,
          clears, lastSuccess, store, served, job, auth>>

\* the variables of the client session, of the concurrent calls, and of the
\* gallery application
clientVars == <<genCall, encCall, history, wire, decCall>>

concVars == <<asyncCalls, frames>>

appVars == <<session, clock, cachedImages, lastFetchTime, fetch, returned, response>>

\* the variables of the server's store and middleware, of the uploader and of
\* the auth provider
siteVars == <<clears, lastSuccess, store, served, job, auth>>

\* longest plaintext, in bytes
MaxPlainLen == 2

\* encrypt calls of one session when the session repeats them
MaxEncCalls == 2

\* one plaintext of every length up to MaxPlainLen
PlainBytes(n) == [i \in 1..n |-> (i * 127 + n * 31) % 256]

Plains == {PlainBytes(n) : n \in 0..MaxPlainLen}

\* well-formed inputs of encrypt: padded base64, bare or in a data URL
WellFormedInputs ==
  {btoa(p) : p \in Plains} \cup {PngPrefix \o btoa(p) : p \in Plains}

\* base64 without its padding, which atob accepts as well
Unpadded(s) == SelectSeq(s, LAMBDA c : c # "=")

\* other strings a caller can pass: unpadded base64, a character outside the
\* alphabet, and a second marker behind the payload
OtherInputs ==
  { Unpadded(btoa(PlainBytes(1))),
    <<"Q", "!", "=", "=">>,
    TextPrefix \o btoa(PlainBytes(1)) \o Marker \o btoa(PlainBytes(2)) }

EncryptInputs == WellFormedInputs \cup OtherInputs

\* the inputs of the sessions that tamper with the stored string, and of the
\* sessions that encrypt repeatedly
TamperInputs == {btoa(PlainBytes(0)), PngPrefix \o btoa(PlainBytes(MaxPlainLen))}

RepeatInputs == {btoa(PlainBytes(1)), PngPrefix \o btoa(PlainBytes(MaxPlainLen))}

ImagePng == <<"i", "m", "a", "g", "e", "/", "p", "n", "g">>

\* files for encryptFile
Files == {[type |-> ImagePng, bytes |-> p] : p \in Plains}

\* the file of the sessions that encrypt repeatedly: the content of the
\* data URL among RepeatInputs
RepeatFiles == {[type |-> ImagePng, bytes |-> PlainBytes(MaxPlainLen)]}

\* s.toUpperCase() of a hex string
ToUpper(s) ==
  [i \in 1..Len(s) |->
     IF \E k \in 1..16 : HexLower[k] = s[i]
     THEN HexUpper[CHOOSE k \in 1..16 : HexLower[k] = s[i]]
     ELSE s[i]]

\* key strings that are not the output of generateEncryptionKey: the empty
\* string, a 128-bit key, and a key with an odd number of digits
EmptyKey == << >>

ShortKey == bufferToHexString(RandomBytes(0, 16))

OddKey == <<"a", "b", "c">>

\* the keys generateEncryptionKey can return
GeneratedKeys == {generateEncryptionKey(RandomBytes(s, KeyLength)) : s \in Seeds}

\* the key the client generated, if it has generated one
HeldKeys == IF genCall.made THEN {genCall.key} ELSE {}

\* the key strings the client passes to encrypt: the key it generated, and
\* hand-made ones
EncryptKeys == HeldKeys \cup {EmptyKey, ShortKey, OddKey}

\* the key strings the client passes to decrypt: any generated key, one of
\* them in upper case and behind a stray character, and hand-made ones
DecryptKeys ==
  LET k == generateEncryptionKey(RandomBytes(0, KeyLength))
  IN  GeneratedKeys \cup {ToUpper(k), <<"z">> \o k, ShortKey, OddKey}

\* what decrypt is called with when there is no stored string: payloads of 1
\* and of IvLength bytes, an empty payload, a blank one, and the empty string
OtherDecryptInputs ==
  { btoa(RandomBytes(0, 1)), btoa(RandomBytes(0, IvLength)),
    PngPrefix \o btoa(RandomBytes(0, IvLength)), PngPrefix, <<" ">>, << >> }

\* the bits of a byte that the sessions tampering with the stored string flip
TamperBits == 0..7

NoGen == [made |-> FALSE, fn |-> "none", drawn |-> << >>, key |-> << >>]

NoEnc == [made |-> FALSE, fn |-> "none", data |-> << >>, keyArg |-> NoKey,
          usedKey |-> << >>, keyData |-> << >>, iv |-> << >>,
          steps |-> << >>, result |-> Fail("none"), retKey |-> NoKey]

NoWire == [blob |-> << >>, tampered |-> FALSE]

NoDec == [made |-> FALSE, fn |-> "none", data |-> << >>, key |-> << >>,
          steps |-> << >>, result |-> Fail("none")]

\* encrypt and decrypt calls that can be in flight together
NumCalls == 2

CallIds == 1..NumCalls

NoCall == [pc |-> "idle", fn |-> "none", data |-> << >>, key |-> << >>, iv |-> << >>,
           overlapped |-> FALSE, result |-> Fail("none")]

NoFrame == [prefix |-> << >>, base64Data |-> << >>, keyData |-> << >>,
            iv |-> << >>, buffer |-> << >>]

\* nobody is signed in
NoUser == "none"

Users == {"A", "B"}

\* the records in the SecretVault collection when the model starts, each
\* written by an upload request of its owner; writer is the user whose
\* session made the request that wrote the record
StoredImages ==
  { [_id |-> "img-1", userId |-> "A", writer |-> "A"],
    [_id |-> "img-2", userId |-> "A", writer |-> "A"],
    [_id |-> "img-3", userId |-> "B", writer |-> "B"] }

\* no request has passed the middleware
NoServed == [made |-> FALSE, path |-> << >>, user |-> NoUser, outcome |-> "none",
             action |-> "none", target |-> << >>]

\* handleSubmit has not been called
NoJob == [pc |-> "idle", isUploading |-> FALSE, imagePreview |-> << >>,
          generated |-> << >>, key |-> << >>, finalImageData |-> << >>,
          encrypted |-> "none", toast |-> "none",
          pinata |-> [called |-> FALSE, data |-> << >>, key |-> << >>, ok |-> FALSE],
          nillion |-> [called |-> FALSE, userId |-> NoUser, ok |-> FALSE],
          steps |-> << >>]

\* SupabaseProvider before it is mounted: the useState initial values
\* justLoggedIn is the flag in localStorage; effectDue tells that a
\* dependency of the initialization effect has changed since it last ran;
\* pc is the auth call that refreshUser or initializeAuth awaits, closure the
\* retryCount that the running initializeAuth has captured; attempts and
\* aborted count the session fetches started and aborted, and initializedBy
\* names what set isInitialized
NoAuth == [mounted |-> FALSE, client |-> FALSE, justLoggedIn |-> FALSE,
           effectDue |-> FALSE, subscribed |-> FALSE, pc |-> "none",
           user |-> NoUser, isLoading |-> TRUE, isInitialized |-> FALSE,
           retryCount |-> 0, closure |-> 0, attempts |-> 0, aborted |-> 0,
           initializedBy |-> "none"]

\* let cachedImages = null; epoch tells how many clearCache calls had been
\* made when the request that filled the cache was sent
NoCache == [filled |-> FALSE, data |-> {}, epoch |-> 0]

\* getImages calls that can be in flight at once
MaxFetches == 1

FetchIds == 1..MaxFetches

\* a response as getImages reads it: the status, whether response.json()
\* gives an object, and its success, message and data; status 0 stands for
\* a fetch that rejects
Json(status, success, message, data) ==
  [status |-> status, parsed |-> TRUE, success |-> success, message |-> message,
   data |-> data]

Unparsable(status) ==
  [status |-> status, parsed |-> FALSE, success |-> FALSE, message |-> FALSE,
   data |-> {}]

NetworkFailure == Unparsable(0)

\* a slot with no call in it; a call in flight holds the now and the session
\* of its start and the number of clearCache calls made before it
NoFetch == [pc |-> "idle", now |-> 0, user |-> NoUser, epoch |-> 0,
            answer |-> NetworkFailure]

\* what a getImages call gave back: settled tells whether the promise was
\* resolved; status is that of the response, 0 without one; callEpoch and
\* requestEpoch count the clearCache calls made before the call started and
\* before the request of the data was sent
NoReturn == [made |-> FALSE, settled |-> "none", user |-> NoUser, data |-> {},
             authError |-> FALSE, error |-> FALSE, cached |-> FALSE, status |-> 0,
             callEpoch |-> 0, requestEpoch |-> 0]

\* no request has succeeded since the page was loaded or the cache cleared
NoSuccess == [some |-> FALSE, start |-> 0, data |-> {}]

NoResponse == [made |-> FALSE, user |-> NoUser, id |-> "none", threw |-> "none",
               status |-> 0, success |-> FALSE, data |-> {}]

Init ==
  /\ genCall = NoGen
  /\ encCall = NoEnc
  /\ history = << >>
  /\ wire = NoWire
  /\ decCall = NoDec
  /\ asyncCalls = [c \in CallIds |-> NoCall]
  /\ frames = [c \in CallIds |-> NoFrame]
  /\ session = NoUser
  /\ clock = 0
  /\ cachedImages = NoCache
  /\ lastFetchTime = 0
  /\ fetch = [f \in FetchIds |-> NoFetch]
  /\ returned = NoReturn
  /\ response = NoResponse
  /\ clears = 0
  /\ lastSuccess = NoSuccess
  /\ store = StoredImages
  /\ served = NoServed
  /\ job = NoJob
  /\ auth = NoAuth

\* an encrypt call has returned: the client sees result and retKey, and stores
\* the string; usedKey, keyData and iv are the key and the nonce of the call,
\* steps the crypto.subtle operations it called
Encrypted(fn, data, keyArg, usedKey, keyData, iv, steps, result, retKey) ==
  /\ encCall' = [made |-> TRUE, fn |-> fn, data |-> data, keyArg |-> keyArg,
                 usedKey |-> IF result.ok THEN usedKey ELSE << >>,
                 keyData |-> IF result.ok THEN keyData ELSE << >>,
                 iv |-> IF result.ok THEN iv ELSE << >>,
                 steps |-> steps, result |-> result, retKey |-> retKey]
  /\ history' = Append(history,
                       IF result.ok
                       THEN [ok |-> TRUE, data |-> data, keyData |-> keyData,
                             iv |-> iv, blob |-> result.value]
                       ELSE [ok |-> FALSE, data |-> data, keyData |-> << >>,
                             iv |-> << >>, blob |-> << >>])
  /\ wire' = IF result.ok THEN [blob |-> result.value, tampered |-> FALSE] ELSE NoWire
  /\ decCall' = NoDec
  /\ UNCHANGED <<genCall, concVars, appVars, siteVars>>

\* generateEncryptionKey() of part_000
GenerateKeyFile ==
  /\ ~encCall.made
  /\ \E s \in Seeds :
       LET drawn == RandomBytes(s, KeyLength)
       IN  genCall' = [made |-> TRUE, fn |-> "part_000", drawn |-> drawn,
                       key |-> generateEncryptionKey(drawn)]
  /\ UNCHANGED <<encCall, history, wire, decCall, concVars, appVars, siteVars>>

\* generateEncryptionKey() of utils/encryption.ts
GenerateKeyImage ==
  /\ ~encCall.made
  /\ \E s \in Seeds :
       LET drawn == RandomBytes(s, KeyLength)
       IN  genCall' = [made |-> TRUE, fn |-> "utils", drawn |-> drawn,
                       key |-> generateEncryptionKey(drawn)]
  /\ UNCHANGED <<encCall, history, wire, decCall, concVars, appVars, siteVars>>

\* the optional key argument of encryptData and encryptFile: absent, or one
\* of the client's key strings
KeyArgs == {NoKey} \cup {SomeKey(k) : k \in EncryptKeys}

\* the key argument of a client that always passes the key it generated
HeldKeyArgs == {SomeKey(k) : k \in HeldKeys}

\* the seeds of a call that generates its key; a call that is given a key
\* draws none
KeySeeds(keyArg) == IF keyArg.given /\ ~IsEmptyString(keyArg.str) THEN {0} ELSE Seeds

\* encryptData(data, options): returns the encrypted string only
EncryptData(inputs, keyArgs, calls) ==
  /\ Len(history) < calls
  /\ decCall = NoDec
  /\ \E data \in inputs, keyArg \in keyArgs, n \in IvSeeds :
       \E s \in KeySeeds(keyArg) :
         LET fresh == generateEncryptionKey(RandomBytes(s, KeyLength))
             key == KeyOrGenerated(keyArg, fresh)
             iv == DrawIv(n)
         IN  Encrypted("encryptData", data, keyArg, key, hexStringToBuffer(key), iv,
                       encryptDataSteps(data, keyArg, fresh),
                       encryptData(data, keyArg, fresh, iv), NoKey)

\* encryptFile(file, options): returns {encryptedData, key, mimeType}
EncryptFile(files, keyArgs, calls) ==
  /\ Len(history) < calls
  /\ decCall = NoDec
  /\ \E file \in files, keyArg \in keyArgs, n \in IvSeeds :
       \E s \in KeySeeds(keyArg) :
         LET fresh == generateEncryptionKey(RandomBytes(s, KeyLength))
             key == KeyOrGenerated(keyArg, fresh)
             iv == DrawIv(n)
             result == encryptData(fileToDataUrl(file), SomeKey(key), fresh, iv)
         IN  Encrypted("encryptFile", fileToDataUrl(file), keyArg, key,
                       hexStringToBuffer(key), iv,
                       encryptDataSteps(fileToDataUrl(file), SomeKey(key), fresh), result,
                       IF result.ok THEN SomeKey(key) ELSE NoKey)

\* encryptImage(imageData, key): returns the encrypted string
EncryptImage(inputs, keys, calls) ==
  /\ Len(history) < calls
  /\ decCall = NoDec
  /\ \E data \in inputs, key \in keys, n \in IvSeeds :
       LET iv == DrawIv(n)
       IN  Encrypted("encryptImage", data, SomeKey(key), key, inlineKeyDecode(key), iv,
                     encryptImageSteps(data, key), encryptImage(data, key, iv), NoKey)

\* everything behind the first marker of s, or s when it has none
Remainder(s) ==
  IF Includes(s, Marker) THEN Slice(s, IndexOf(s, Marker, 1) + Len(Marker), Len(s)) ELSE s

\* everything up to and including the first marker of s, nothing when s has
\* no marker
FirstPrefix(s) ==
  IF Includes(s, Marker) THEN Slice(s, 1, IndexOf(s, Marker, 1) + Len(Marker) - 1) ELSE << >>

\* one bit of one byte
FlipBit(byte, bit) ==
  IF (byte \div (2 ^ bit)) % 2 = 1 THEN byte - 2 ^ bit ELSE byte + 2 ^ bit

\* the stored string with one bit of its decoded payload flipped
FlipInBlob(blob, pos, bit) ==
  LET bytes == atob(SplitPayload(blob)).bytes
  IN  SplitPrefix(blob) \o btoa([bytes EXCEPT ![pos] = FlipBit(bytes[pos], bit)])

\* somebody with access to the storage flips one bit of the stored payload
Tamper ==
  /\ wire.blob # << >>
  /\ ~wire.tampered
  /\ decCall = NoDec
  /\ \E pos \in 1..Len(atob(SplitPayload(wire.blob)).bytes), bit \in TamperBits :
       wire' = [blob |-> FlipInBlob(wire.blob, pos, bit), tampered |-> TRUE]
  /\ UNCHANGED <<genCall, encCall, history, decCall, concVars, appVars, siteVars>>

\* the prefixes somebody with access to the storage puts in front of a
\* stored payload: none, or that of another MIME type
OtherPrefixes == {<< >>, TextPrefix, PngPrefix}

\* somebody with access to the storage replaces the data-URL prefix of the
\* stored string, or strips it
ReplacePrefix ==
  /\ wire.blob # << >>
  /\ wire.blob = encCall.result.value
  /\ decCall = NoDec
  /\ \E p \in OtherPrefixes :
       /\ p # FirstPrefix(wire.blob)
       /\ wire' = [blob |-> p \o Remainder(wire.blob), tampered |-> FALSE]
  /\ UNCHANGED <<genCall, encCall, history, decCall, concVars, appVars, siteVars>>

\* the strings decrypt is called with
DecryptInputs == IF wire.blob # << >> THEN {wire.blob} ELSE OtherDecryptInputs

\* decryptData(encryptedData, {key})
DecryptData(keys) ==
  /\ decCall = NoDec
  /\ \E data \in DecryptInputs, key \in keys :
       decCall' = [made |-> TRUE, fn |-> "decryptData", data |-> data, key |-> key,
                   steps |-> decryptDataSteps(data, key),
                   result |-> decryptData(data, key)]
  /\ UNCHANGED <<genCall, encCall, history, wire, concVars, appVars, siteVars>>

\* decryptImage(encryptedData, key)
DecryptImage(keys) ==
  /\ decCall = NoDec
  /\ \E data \in DecryptInputs, key \in keys :
       decCall' = [made |-> TRUE, fn |-> "decryptImage", data |-> data, key |-> key,
                   steps |-> decryptImageSteps(data, key),
                   result |-> decryptImage(data, key)]
  /\ UNCHANGED <<genCall, encCall, history, wire, concVars, appVars, siteVars>>

\* sessions of one encrypt call and one decrypt call, with any arguments
Next ==
  \/ GenerateKeyFile
  \/ GenerateKeyImage
  \/ EncryptData(EncryptInputs, KeyArgs, 1)
  \/ EncryptFile(Files, KeyArgs, 1)
  \/ EncryptImage(EncryptInputs, EncryptKeys, 1)
  \/ DecryptData(DecryptKeys)
  \/ DecryptImage(DecryptKeys)

Spec == Init /\ [][Next]_vars

\* sessions in which the stored string is tampered with before it is decrypted
\* with the key it was encrypted with
NextTamper ==
  \/ GenerateKeyFile
  \/ GenerateKeyImage
  \/ EncryptData(TamperInputs, HeldKeyArgs, 1)
  \/ EncryptImage(TamperInputs, HeldKeys, 1)
  \/ Tamper
  \/ DecryptData(HeldKeys)
  \/ DecryptImage(HeldKeys)

SpecTamper == Init /\ [][NextTamper]_vars

\* sessions that encrypt repeatedly
NextRepeat ==
  \/ GenerateKeyFile
  \/ GenerateKeyImage
  \/ EncryptData(RepeatInputs, HeldKeyArgs, MaxEncCalls)
  \/ EncryptFile(RepeatFiles, HeldKeyArgs, MaxEncCalls)
  \/ EncryptImage(RepeatInputs, HeldKeys, MaxEncCalls)

SpecRepeat == Init /\ [][NextRepeat]_vars

\* sessions in which the prefix of the stored string is replaced or stripped
\* before it is decrypted with the key it was encrypted with
NextPrefix ==
  \/ GenerateKeyFile
  \/ GenerateKeyImage
  \/ EncryptData(TamperInputs, HeldKeyArgs, 1)
  \/ EncryptImage(TamperInputs, HeldKeys, 1)
  \/ ReplacePrefix
  \/ DecryptData(HeldKeys)
  \/ DecryptImage(HeldKeys)

SpecPrefix == Init /\ [][NextPrefix]_vars

----------------------------------------------------------------------------
(* Concurrent calls.  Every encrypt and decrypt function is async: it runs *)
(* up to its first await, is resumed when crypto.subtle.importKey settles, *)
(* and again when crypto.subtle.encrypt or decrypt settles.  Between two   *)
(* of these steps any other call can run.                                   *)

\* the key, the inputs and the stored string of the concurrent calls
ConcKey == generateEncryptionKey(RandomBytes(0, KeyLength))

ConcKeys == {ConcKey, OddKey}

ConcPlain == PngPrefix \o btoa(PlainBytes(1))

ConcEncryptInputs == {ConcPlain, <<"Q", "!", "=", "=">>}

ConcBlob == encryptData(ConcPlain, SomeKey(ConcKey), ConcKey, DrawIv(0)).value

ConcDecryptInputs == {ConcBlob, <<" ">>}

EncryptFns == {"encryptData", "encryptImage"}

DecryptFns == {"decryptData", "decryptImage"}

FileFns == {"encryptData", "decryptData"}

\* const and let bindings declared at module level: one frame for all calls
ScopeModule(c) == 1

\* the frame that holds the const and let bindings of call c: they are
\* declared in the function body, so every call has a frame of its own
Scope(c) == c

\* the call is between two of its steps
InFlight(c) == asyncCalls[c].pc \in {"importKey", "cipher"}

\* call c has settled with the given result
Settle(c, result) == [asyncCalls EXCEPT ![c].pc = "done", ![c].result = result]

\* a call starts and runs up to its first await, which is on importKey:
\* a decrypt call checks its input, every call splits it and decodes the key
CallStart(c) ==
  /\ asyncCalls[c].pc = "idle"
  /\ \E fn \in EncryptFns \cup DecryptFns, key \in ConcKeys :
       \E data \in (IF fn \in EncryptFns THEN ConcEncryptInputs ELSE ConcDecryptInputs),
          n \in (IF fn \in EncryptFns THEN IvSeeds ELSE {0}) :
         LET base64Data == SplitPayload(data)
             overlap == \E d \in CallIds : InFlight(d)
             started == [c2 \in CallIds |->
                           IF c2 = c
                           THEN [pc |-> "importKey", fn |-> fn, data |-> data, key |-> key,
                                 iv |-> IF fn \in EncryptFns THEN DrawIv(n) ELSE << >>,
                                 overlapped |-> overlap, result |-> Fail("none")]
                           ELSE IF InFlight(c2)
                                THEN [asyncCalls[c2] EXCEPT !.overlapped = TRUE]
                                ELSE asyncCalls[c2]]
         IN  IF fn \in DecryptFns /\ IsEmptyString(data)
             THEN /\ asyncCalls' = [started EXCEPT ![c].pc = "done",
                                              ![c].result = Fail("No encrypted data provided")]
                  /\ UNCHANGED frames
             ELSE IF fn \in DecryptFns /\ PayloadMissing(base64Data)
             THEN /\ asyncCalls' = [started EXCEPT ![c].pc = "done",
                                              ![c].result = Fail("Invalid base64 data")]
                  /\ UNCHANGED frames
             ELSE /\ asyncCalls' = started
                  /\ frames' = [frames EXCEPT ![Scope(c)] =
                       [prefix |-> IF fn = "decryptData" /\ ~Includes(data, Marker)
                                   THEN DefaultPrefix ELSE SplitPrefix(data),
                        base64Data |-> base64Data,
                        keyData |-> IF fn \in FileFns THEN hexStringToBuffer(key)
                                    ELSE inlineKeyDecode(key),
                        iv |-> << >>,
                        buffer |-> << >>]]
  /\ UNCHANGED <<clientVars, appVars, siteVars>>

\* importKey has settled: the call draws its nonce (encrypt), decodes the
\* payload, cuts nonce and content from it (decrypt), and awaits the cipher
ImportKeySettled(c) ==
  /\ asyncCalls[c].pc = "importKey"
  /\ LET fn == asyncCalls[c].fn
         frame == frames[Scope(c)]
         decoded == IF fn \in FileFns THEN base64ToArrayBuffer(frame.base64Data)
                    ELSE atob(frame.base64Data)
         decodeError == IF fn \in FileFns THEN "Invalid base64 encoding"
                        ELSE "InvalidCharacterError"
     IN  IF ~importKey(frame.keyData)
         THEN asyncCalls' = Settle(c, Fail("DataError")) /\ UNCHANGED frames
         ELSE IF ~decoded.ok
         THEN asyncCalls' = Settle(c, Fail(decodeError)) /\ UNCHANGED frames
         ELSE IF fn \in DecryptFns /\ Len(decoded.bytes) <= IvLength
         THEN asyncCalls' = Settle(c, Fail("Encrypted data is too short")) /\ UNCHANGED frames
         ELSE /\ asyncCalls' = [asyncCalls EXCEPT ![c].pc = "cipher"]
              /\ frames' = [frames EXCEPT ![Scope(c)] =
                   [frame EXCEPT
                      !.iv = IF fn \in EncryptFns THEN asyncCalls[c].iv ELSE SliceIv(decoded.bytes),
                      !.buffer = IF fn \in EncryptFns THEN decoded.bytes
                                 ELSE SliceContent(decoded.bytes)]]
  /\ UNCHANGED <<clientVars, appVars, siteVars>>

\* crypto.subtle.encrypt or decrypt has settled: the call frames or encodes
\* what it got and returns
CipherSettled(c) ==
  /\ asyncCalls[c].pc = "cipher"
  /\ LET fn == asyncCalls[c].fn
         frame == frames[Scope(c)]
         sealed == GcmSeal(frame.keyData, frame.iv, frame.buffer)
         opened == GcmOpen(frame.keyData, frame.iv, frame.buffer)
     IN  asyncCalls' = Settle(c,
           IF fn \in EncryptFns THEN Ok(frame.prefix \o btoa(Frame(frame.iv, sealed)))
           ELSE IF ~opened.ok THEN Fail("OperationError")
           ELSE Ok(frame.prefix \o btoa(opened.bytes)))
  /\ UNCHANGED <<frames, clientVars, appVars, siteVars>>

NextConcurrent ==
  \E c \in CallIds : CallStart(c) \/ ImportKeySettled(c) \/ CipherSettled(c)

SpecConcurrent == Init /\ [][NextConcurrent]_vars

\* what the call returns when it runs alone, with the same arguments and the
\* same nonce
Alone(call) ==
  CASE call.fn = "encryptData" -> encryptData(call.data, SomeKey(call.key), call.key, call.iv)
    [] call.fn = "encryptImage" -> encryptImage(call.data, call.key, call.iv)
    [] call.fn = "decryptData" -> decryptData(call.data, call.key)
    [] call.fn = "decryptImage" -> decryptImage(call.data, call.key)

----------------------------------------------------------------------------
(* The gallery application: the image service of the browser with its      *)
(* module-level cache, sign-in and sign-out, and the two GET routes of the *)
(* server.                                                                  *)

\* const CACHE_DURATION = 10000 // 10 seconds
CACHE_DURATION == 10000

\* the clock advances MaxTicks times, by TickMs each time
TickMs == 5000

MaxTicks == 4

MaxClock == MaxTicks * TickMs

\* the ids a client asks for: those of the records, and one of no record
RequestedIds == {r._id : r \in store} \cup {"img-0"}

\* collection.readFromNodes({ userId }) and collection.readFromNodes({ _id })
readFromNodesByUser(userId) == {r \in store : r.userId = userId}

readFromNodesById(id) == {r \in store : r._id = id}

\* GET /api/nillion/images: without a configuration an empty list with a
\* message; 401 without a session; then the records of the user of the
\* session, 403 when the nodes deny access and 500 when they fail
listImagesRoute(user, configured, nodes) ==
  IF ~configured THEN Json(200, TRUE, TRUE, {})
  ELSE IF user = NoUser THEN Json(401, FALSE, FALSE, {})
  ELSE IF nodes = "denied" THEN Json(403, FALSE, FALSE, {})
  ELSE IF nodes = "fails" THEN Json(500, FALSE, FALSE, {})
  ELSE Json(200, TRUE, FALSE, readFromNodesByUser(user))

NodeOutcomes == {"ok", "denied", "fails"}

\* what the route answers to a request of user, under the given states of
\* the configuration and of the nodes
RouteAnswers(user, configs, nodes) ==
  {listImagesRoute(user, configured, n) : configured \in configs, n \in nodes}

\* what else can come back: no response at all, a body that is not JSON
\* under several statuses, and JSON of another shape than the route's
OtherAnswers ==
  {NetworkFailure, Unparsable(200), Unparsable(401), Unparsable(404),
   Unparsable(500), Unparsable(502),
   Json(200, FALSE, FALSE, {}), Json(200, FALSE, TRUE, {})}

\* the nodes of a server that is up
PlainOutcomes == {"ok", "fails"}

\* an ownership check that lets every record pass
OwnsAlways(image, userId) == TRUE

\* image.userId !== userId, negated
Owns(image, userId) == image.userId = userId

\* GET /api/nillion/images/[id]: threw tells which awaited call threw, if any
getImageRoute(user, id, threw) ==
  LET results == readFromNodesById(id)
      image == CHOOSE r \in results : TRUE
      Respond(status, data) ==
        [made |-> TRUE, user |-> user, id |-> id, threw |-> threw,
         status |-> status, success |-> (status = 200), data |-> data]
  IN  IF threw = "getUser" THEN Respond(500, {})
      ELSE IF user = NoUser THEN Respond(401, {})
      ELSE IF threw = "readFromNodes" THEN Respond(500, {})
      ELSE IF results = {} THEN Respond(404, {})
      ELSE IF ~Owns(image, user) THEN Respond(403, {})
      ELSE Respond(200, {image})

\* handleSignIn of the sign-in form: signInWithPassword, then router.push
\* and router.refresh; the page is not loaded anew
SignIn ==
  /\ session = NoUser
  /\ \E u \in Users : session' = u
  /\ UNCHANGED <<clock, cachedImages, lastFetchTime, fetch, returned, response,
                 clientVars, concVars, siteVars>>

\* handleSignOut of the navbar, which calls signOut of the context: the
\* session ends, router.push and router.refresh; the page is not loaded anew
SignOut ==
  /\ session # NoUser
  /\ session' = NoUser
  /\ UNCHANGED <<clock, cachedImages, lastFetchTime, fetch, returned, response,
                 clientVars, concVars, siteVars>>

\* time passes
Tick ==
  /\ clock < MaxClock
  /\ clock' = clock + TickMs
  /\ UNCHANGED <<session, cachedImages, lastFetchTime, fetch, returned, response,
                 clientVars, concVars, siteVars>>

\* the outer catch that would throw the error on
getImagesCatchRethrows ==
  [settled |-> "rejected", data |-> {}, authError |-> FALSE, error |-> TRUE,
   write |-> FALSE]

\* the outer catch of getImages: "Instead of throwing the error, return an
\* empty array"
getImagesCatch ==
  [settled |-> "resolved", data |-> {}, authError |-> FALSE, error |-> TRUE,
   write |-> FALSE]

\* a return of getImages with an error and no data
ErrorResponse(authError) ==
  [settled |-> "resolved", data |-> {}, authError |-> authError, error |-> TRUE,
   write |-> FALSE]

\* response.ok
ResponseOk(status) == status >= 200 /\ status <= 299

\* getImages after its await: what it returns for the answer, and whether
\* it writes the cache
getImagesResponse(answer) ==
  IF answer.status = 0 THEN getImagesCatch
  ELSE IF answer.status = 401 THEN ErrorResponse(TRUE)
  ELSE IF answer.status = 404 THEN ErrorResponse(FALSE)
  ELSE IF answer.status = 500 THEN ErrorResponse(FALSE)
  ELSE IF ~ResponseOk(answer.status) THEN ErrorResponse(FALSE)
  ELSE IF ~answer.parsed THEN ErrorResponse(FALSE)
  ELSE IF ~answer.success /\ ~answer.message THEN ErrorResponse(FALSE)
  ELSE [settled |-> "resolved", data |-> answer.data, authError |-> FALSE,
        error |-> FALSE, write |-> TRUE]

\* a cache check that still takes the cache after CACHE_DURATION exactly
CacheRecentInclusive(now) ==
  cachedImages.filled /\ now - lastFetchTime <= CACHE_DURATION

\* cachedImages && now - lastFetchTime < CACHE_DURATION
CacheRecent(now) == cachedImages.filled /\ now - lastFetchTime < CACHE_DURATION

\* the slot a new call takes: the first one that is free
FreeSlot(slots) ==
  CHOOSE f \in slots :
    fetch[f].pc = "idle" /\ \A g \in slots : fetch[g].pc = "idle" => f <= g

\* getImages up to its await: a recent cache is returned, otherwise the
\* request is sent with the cookies of the session
GetImagesCall(slots) ==
  /\ \E f \in slots : fetch[f].pc = "idle"
  /\ IF CacheRecent(clock)
     THEN /\ returned' = [made |-> TRUE, settled |-> "resolved", user |-> session,
                          data |-> cachedImages.data, authError |-> FALSE,
                          error |-> FALSE, cached |-> TRUE, status |-> 0,
                          callEpoch |-> clears, requestEpoch |-> cachedImages.epoch]
          /\ UNCHANGED fetch
     ELSE /\ fetch' = [fetch EXCEPT ![FreeSlot(slots)] =
                         [pc |-> "sent", now |-> clock, user |-> session,
                          epoch |-> clears, answer |-> NetworkFailure]]
          /\ UNCHANGED returned
  /\ UNCHANGED <<session, clock, cachedImages, lastFetchTime, response,
                 clientVars, concVars, siteVars>>

\* the response to a request arrives: an answer of the route to the user
\* of the session the request was sent with, or one of other
ServeImages(slots, configs, nodes, other) ==
  /\ \E f \in slots :
       /\ fetch[f].pc = "sent"
       /\ \E answer \in RouteAnswers(fetch[f].user, configs, nodes) \cup other :
            fetch' = [fetch EXCEPT ![f].pc = "answered", ![f].answer = answer]
  /\ UNCHANGED <<session, clock, cachedImages, lastFetchTime, returned, response,
                 clientVars, concVars, siteVars>>

\* getImages after its await: an error gives no data; a response that was
\* parsed and is successful or has a message fills the cache, stamped with
\* the time of the call
GetImagesReturn(slots) ==
  /\ \E f \in slots :
       /\ fetch[f].pc = "answered"
       /\ LET result == getImagesResponse(fetch[f].answer)
          IN  /\ returned' = [made |-> TRUE, settled |-> result.settled,
                              user |-> fetch[f].user, data |-> result.data,
                              authError |-> result.authError, error |-> result.error,
                              cached |-> FALSE, status |-> fetch[f].answer.status,
                              callEpoch |-> fetch[f].epoch,
                              requestEpoch |-> fetch[f].epoch]
              /\ IF result.write
                 THEN /\ cachedImages' = [filled |-> TRUE, data |-> result.data,
                                          epoch |-> fetch[f].epoch]
                      /\ lastFetchTime' = fetch[f].now
                      /\ lastSuccess' = [some |-> TRUE, start |-> fetch[f].now,
                                         data |-> result.data]
                 ELSE UNCHANGED <<cachedImages, lastFetchTime, lastSuccess>>
       /\ fetch' = [fetch EXCEPT ![f] = NoFetch]
  /\ UNCHANGED <<session, clock, response, clears, store, served, job, auth,
                 clientVars, concVars>>

\* clearCache calls that can be made
MaxClears == 1

\* nillionService.clearCache()
clearCache ==
  /\ cachedImages' = NoCache
  /\ lastFetchTime' = 0
  /\ clears' = clears + 1
  /\ lastSuccess' = NoSuccess

\* the uploader clears the cache after an upload
ClearCache ==
  /\ clears < MaxClears
  /\ clearCache
  /\ UNCHANGED <<session, clock, fetch, returned, response, store, served, job, auth,
                 clientVars, concVars>>

\* a client asks the server for one image
GetImageById ==
  /\ \E id \in RequestedIds, threw \in {"none", "getUser", "readFromNodes"} :
       response' = getImageRoute(session, id, threw)
  /\ UNCHANGED <<session, clock, cachedImages, lastFetchTime, fetch, returned,
                 clientVars, concVars, siteVars>>

\* one getImages call at a time, with every answer that can come back
AppSlots == {1}

NextApp ==
  \/ SignIn
  \/ SignOut
  \/ Tick
  \/ GetImagesCall(AppSlots)
  \/ ServeImages(AppSlots, BOOLEAN, NodeOutcomes, OtherAnswers)
  \/ GetImagesReturn(AppSlots)

SpecApp == Init /\ [][NextApp]_vars

\* the cache under getImages calls and clearCache calls, which may come
\* while a request is in flight, with a server that is up
NextCache ==
  \/ SignIn
  \/ Tick
  \/ GetImagesCall(FetchIds)
  \/ ServeImages(FetchIds, {TRUE}, PlainOutcomes, {})
  \/ GetImagesReturn(FetchIds)
  \/ ClearCache

SpecCache == Init /\ [][NextCache]_vars

\* upload requests that can be made on top of the records of Init
MaxUploads == 1

\* the ids an upload request can carry: none, so that the route draws one
\* with crypto.randomUUID(), or one chosen by the client
NoId == "none"

UploadIds == {NoId, "img-8"}

\* crypto.randomUUID() of the k-th upload
RandomUuid(k) == IF k = 1 THEN "uuid-1" ELSE IF k = 2 THEN "uuid-2" ELSE "uuid-3"

\* the records written by upload requests
Uploaded == store \ StoredImages

\* POST /api/nillion/upload: the record the route writes for the image of
\* the request body; the route does not look at the session of the request
uploadRecord(image, requester) ==
  [_id |-> IF image.id # NoId THEN image.id ELSE RandomUuid(Cardinality(Uploaded) + 1),
   userId |-> image.userId,
   writer |-> requester]

\* a client posts an image to the upload route: the body has no image (400),
\* the nodes fail (500), or the record is written
Upload ==
  /\ Cardinality(Uploaded) < MaxUploads
  /\ \E hasImage \in BOOLEAN, nodesOk \in BOOLEAN, id \in UploadIds,
        userId \in Users \cup {NoUser} :
       LET record == uploadRecord([id |-> id, userId |-> userId], session)
       IN  /\ \A r \in store : r._id # record._id
           /\ store' = IF hasImage /\ nodesOk THEN store \cup {record} ELSE store
  /\ UNCHANGED <<clears, lastSuccess, served, job, auth, appVars, clientVars, concVars>>

\* the requests of several users to the two routes
NextRoutes ==
  \/ SignIn
  \/ SignOut
  \/ Upload
  \/ GetImageById

SpecRoutes == Init /\ [][NextRoutes]_vars

----------------------------------------------------------------------------
(* middleware.ts: the middleware that runs before every page and route     *)

PathHome == <<"/">>

PathAuth == <<"/", "a", "u", "t", "h">>

PathLogin == PathAuth \o <<"/", "l", "o", "g", "i", "n">>

PathAuthors == PathAuth \o <<"o", "r", "s">>

PathApi == <<"/", "a", "p", "i">>

PathApiSlash == PathApi \o <<"/">>

PathApiImages == PathApiSlash \o <<"n", "i", "l", "l", "i", "o", "n", "/", "i", "m", "a", "g", "e", "s">>

PathGallery == <<"/", "g", "a", "l", "l", "e", "r", "y">>

PathView == <<"/", "v", "i", "e", "w">>

\* request.nextUrl.pathname of the requests
Paths ==
  {PathHome, PathAuth, PathLogin, PathAuthors, PathApi, PathApiImages, PathGallery, PathView}

\* what supabase.auth.getSession() does in the middleware: it returns the
\* session of the cookies (or none), returns an error, or throws; or
\* createServerClient throws before it is called
SessionOutcomes == {"returned", "error", "throws", "clientThrows"}

\* a middleware that takes the session of the cookies whatever getSession did
ObtainedSessionIgnoringErrors(outcome, user) == user

\* let session = null, assigned data.session only when getSession returned
\* without error
ObtainedSession(outcome, user) == IF outcome = "returned" THEN user ELSE NoUser

\* middleware(request) for a request with the cookies of user
middleware(pathname, outcome, user) ==
  LET sessionUser == ObtainedSession(outcome, user)
      Next_ == [action |-> "next", target |-> pathname]
      Redirect(to) == [action |-> "redirect", target |-> to]
  IN  IF outcome = "clientThrows"
      THEN IF ~StartsWith(pathname, PathAuth) THEN Redirect(PathLogin) ELSE Next_
      ELSE IF StartsWith(pathname, PathAuth)
      THEN IF sessionUser # NoUser THEN Redirect(PathHome) ELSE Next_
      ELSE IF StartsWith(pathname, PathApiSlash) THEN Next_
      ELSE IF pathname = PathHome THEN Next_
      ELSE IF sessionUser = NoUser /\ ~StartsWith(pathname, PathAuth) THEN Redirect(PathLogin)
      ELSE Next_

\* a request of the browser passes the middleware
Middleware ==
  /\ \E pathname \in Paths, outcome \in SessionOutcomes :
       LET answer == middleware(pathname, outcome, session)
       IN  served' = [made |-> TRUE, path |-> pathname, user |-> session,
                      outcome |-> outcome, action |-> answer.action,
                      target |-> answer.target]
  /\ UNCHANGED <<clears, lastSuccess, store, job, auth, appVars, clientVars, concVars>>

NextMiddleware ==
  \/ SignIn
  \/ SignOut
  \/ Middleware

SpecMiddleware == Init /\ [][NextMiddleware]_vars
----------------------------------------------------------------------------
(* components/image-uploader.tsx: handleSubmit of the upload form          *)

\* reader.result of handleImageChange: the data URL of the chosen file
UploadPreviews == {PngPrefix \o btoa(p) : p \in Plains}

\* imagePreview when handleSubmit runs: null before a file was read
FormPreviews == UploadPreviews \cup {<< >>}

\* key = `${imageType}|${key}`
TypedKey(imageType, key) == imageType \o <<"|">> \o key

\* handleSubmit calls fn
Step(j, fn) == [j EXCEPT !.steps = Append(@, fn)]

\* the inner catch that would go on to the upload with finalImageData as
\* it was initialized, the image itself
encryptCatchFallsThrough(j) ==
  [Step(j, "uploadToPinata") EXCEPT
     !.encrypted = "failed", !.toast = "Encryption Failed", !.pc = "uploadToPinata",
     !.pinata = [called |-> TRUE, data |-> j.finalImageData, key |-> j.key,
                 ok |-> FALSE]]

\* the inner catch of handleSubmit: toast, setIsUploading(false), return;
\* the finally of the outer try sets isUploading to false once more
encryptCatch(j) ==
  [j EXCEPT !.encrypted = "failed", !.toast = "Encryption Failed",
            !.isUploading = FALSE, !.pc = "done"]

\* the form is submitted: without an image, a name or a preview only a toast
\* is shown; otherwise isUploading is set, the key is generated and
\* encryptImage is called with the preview and the key. Where
\* crypto.getRandomValues is missing, generateEncryptionKey throws
Submit ==
  /\ job.pc = "idle"
  /\ \E hasImage \in BOOLEAN, hasName \in BOOLEAN, imagePreview \in FormPreviews,
        randomOk \in BOOLEAN, s \in Seeds :
       IF ~hasImage \/ ~hasName \/ IsEmptyString(imagePreview)
       THEN job' = [job EXCEPT !.toast = "Missing information", !.pc = "done"]
       ELSE LET started == [Step(job, "generateEncryptionKey") EXCEPT
                              !.isUploading = TRUE, !.imagePreview = imagePreview,
                              !.finalImageData = imagePreview]
                key == generateEncryptionKey(RandomBytes(s, KeyLength))
            IN  IF ~randomOk
                THEN job' = encryptCatch(started)
                ELSE job' = [Step(started, "encryptImage") EXCEPT
                               !.generated = key, !.key = key, !.pc = "encryptImage"]
  /\ UNCHANGED <<clears, lastSuccess, store, served, auth, appVars, clientVars, concVars>>

\* encryptImage settles: its string becomes finalImageData, the key gets
\* the image type in front and uploadToPinata is called with both; when it
\* rejects (crypto.subtle missing, or an error of encryptImage itself) the
\* inner catch runs
EncryptSettled ==
  /\ job.pc = "encryptImage"
  /\ \E subtleOk \in BOOLEAN, n \in IvSeeds :
       LET result == IF subtleOk
                     THEN encryptImage(job.imagePreview, job.key, DrawIv(n))
                     ELSE Fail("TypeError")
           key == TypedKey(ImagePng, job.key)
       IN  IF ~result.ok
           THEN job' = encryptCatch(job)
           ELSE job' = [Step(job, "uploadToPinata") EXCEPT
                          !.encrypted = "ok", !.finalImageData = result.value,
                          !.key = key, !.toast = "Image Encrypted",
                          !.pc = "uploadToPinata",
                          !.pinata = [called |-> TRUE, data |-> result.value,
                                      key |-> key, ok |-> FALSE]]
  /\ UNCHANGED <<clears, lastSuccess, store, served, auth, appVars, clientVars, concVars>>

\* uploadToPinata settles: the image item goes to the upload route with the
\* id of the user of the context; a rejection is caught by the outer catch,
\* and the finally sets isUploading to false
PinataSettled ==
  /\ job.pc = "uploadToPinata"
  /\ \E ok \in BOOLEAN :
       IF ok
       THEN job' = [Step(job, "fetch") EXCEPT
                      !.pinata.ok = TRUE, !.pc = "fetch",
                      !.nillion = [called |-> TRUE, userId |-> session, ok |-> FALSE]]
       ELSE job' = [job EXCEPT !.toast = "Upload failed", !.isUploading = FALSE,
                               !.pc = "done"]
  /\ UNCHANGED <<clears, lastSuccess, store, served, auth, appVars, clientVars, concVars>>

\* the upload route answers: on success it has written the record, the form
\* is reset and the image cache is cleared; otherwise the outer catch runs;
\* in both cases the finally sets isUploading to false
NillionSettled ==
  /\ job.pc = "fetch"
  /\ \E ok \in BOOLEAN :
       IF ok /\ Cardinality(Uploaded) < MaxUploads
       THEN /\ job' = [Step(job, "clearCache") EXCEPT
                         !.nillion.ok = TRUE, !.toast = "Success!",
                         !.isUploading = FALSE, !.pc = "done"]
            /\ store' = store \cup
                          {uploadRecord([id |-> RandomUuid(Cardinality(Uploaded) + 1),
                                         userId |-> job.nillion.userId], session)}
            /\ clearCache
       ELSE /\ job' = [job EXCEPT !.toast = "Upload failed", !.isUploading = FALSE,
                                  !.pc = "done"]
            /\ UNCHANGED <<store, clears, lastSuccess, cachedImages, lastFetchTime>>
  /\ UNCHANGED <<served, auth, session, clock, fetch, returned, response,
                 clientVars, concVars>>

\* a user signs in, fills the form and submits it
NextUpload ==
  \/ SignIn
  \/ SignOut
  \/ Submit
  \/ EncryptSettled
  \/ PinataSettled
  \/ NillionSettled

SpecUpload == Init /\ [][NextUpload]_vars
----------------------------------------------------------------------------
(* contexts/supabase-context.tsx: SupabaseProvider and its effects.  State *)
(* updates made in one continuation are rendered together.                 *)

\* retryCount < 3
RetryLimit == 3

\* the dependencies [client, isInitialized, retryCount] of the effect
Deps(a) == <<a.client, a.isInitialized, a.retryCount>>

\* the state after a continuation: the effect is due when a dependency
\* has changed
Rendered(a) == [a EXCEPT !.effectDue = auth.effectDue \/ Deps(a) # Deps(auth)]

\* setIsInitialized(true), by
SetInitialized(a, by) ==
  [a EXCEPT !.isInitialized = TRUE,
            !.initializedBy = IF a.isInitialized THEN @ ELSE by]

\* the finally of initializeAuth: it runs after every return of the try
\* blocks and of their catch blocks
initializeAuthFinally(a, by) == SetInitialized([a EXCEPT !.isLoading = FALSE], by)

\* the provider is mounted; the flag of an earlier sign-in may be in
\* localStorage
Mount ==
  /\ ~auth.mounted
  /\ \E flag \in BOOLEAN :
       auth' = [auth EXCEPT !.mounted = TRUE, !.justLoggedIn = flag]
  /\ UNCHANGED <<clears, lastSuccess, store, served, job, appVars, clientVars, concVars>>

\* the first effect: setClient(supabase || createClient())
SetClient ==
  /\ auth.mounted /\ ~auth.client
  /\ auth' = Rendered([auth EXCEPT !.client = TRUE])
  /\ UNCHANGED <<clears, lastSuccess, store, served, job, appVars, clientVars, concVars>>

\* the initialization effect runs with a client: the subscription of the
\* run before is ended; with the flag it removes the flag, calls refreshUser
\* and returns; otherwise it calls initializeAuth, if not initialized or
\* retrying, and subscribes to auth state changes
RunEffect ==
  /\ auth.client /\ auth.effectDue
  /\ IF auth.justLoggedIn
     THEN auth' = [auth EXCEPT !.effectDue = FALSE, !.subscribed = FALSE,
                               !.justLoggedIn = FALSE, !.isLoading = TRUE,
                               !.pc = "refreshSession"]
     ELSE IF ~auth.isInitialized \/ auth.retryCount > 0
     THEN auth' = [auth EXCEPT !.effectDue = FALSE, !.subscribed = TRUE,
                               !.pc = "getSession", !.closure = auth.retryCount,
                               !.attempts = @ + 1]
     ELSE auth' = [auth EXCEPT !.effectDue = FALSE, !.subscribed = TRUE]
  /\ UNCHANGED <<clears, lastSuccess, store, served, job, appVars, clientVars, concVars>>

AuthOutcomes == {"returned", "error", "throws"}

\* refreshUser: refreshSession has settled, in whatever way; getUser is
\* called
RefreshSessionSettled ==
  /\ auth.pc = "refreshSession"
  /\ auth' = [auth EXCEPT !.pc = "refreshGetUser"]
  /\ UNCHANGED <<clears, lastSuccess, store, served, job, appVars, clientVars, concVars>>

\* refreshUser: getUser has settled; the user is set and, in the finally,
\* isLoading becomes false
RefreshGetUserSettled ==
  /\ auth.pc = "refreshGetUser"
  /\ \E outcome \in AuthOutcomes :
       auth' = Rendered([auth EXCEPT
                           !.user = IF outcome = "returned" THEN session ELSE NoUser,
                           !.isLoading = FALSE, !.pc = "none"])
  /\ UNCHANGED <<clears, lastSuccess, store, served, job, appVars, clientVars, concVars>>

SessionFetchOutcomes == AuthOutcomes \cup {"abort"}

\* initializeAuth: getSession has settled. With an error or without a
\* session: no user, and initialized. With a session getUser is called. An
\* AbortError with retryCount < 3 sets retryCount; any other exception sets
\* no user; and after both the finally runs
GetSessionSettled ==
  /\ auth.pc = "getSession"
  /\ \E outcome \in SessionFetchOutcomes :
       LET done == [auth EXCEPT !.pc = "none"]
           noUser == [done EXCEPT !.user = NoUser]
       IN  IF outcome = "returned" /\ session # NoUser
           THEN auth' = [auth EXCEPT !.pc = "getUser"]
           ELSE IF outcome \in {"returned", "error"}
           THEN auth' = Rendered(initializeAuthFinally(
                          SetInitialized([noUser EXCEPT !.isLoading = FALSE], "attempt"),
                          "attempt"))
           ELSE IF outcome = "abort" /\ auth.closure < RetryLimit
           THEN auth' = Rendered(initializeAuthFinally(
                          [done EXCEPT !.retryCount = auth.closure + 1,
                                       !.isLoading = FALSE, !.aborted = @ + 1],
                          "abort"))
           ELSE IF outcome = "abort"
           THEN auth' = Rendered(initializeAuthFinally(
                          [noUser EXCEPT !.aborted = @ + 1], "exhausted"))
           ELSE auth' = Rendered(initializeAuthFinally(noUser, "attempt"))
  /\ UNCHANGED <<clears, lastSuccess, store, served, job, appVars, clientVars, concVars>>

\* initializeAuth: getUser has settled; the user is set and the finally runs
GetUserSettled ==
  /\ auth.pc = "getUser"
  /\ \E outcome \in AuthOutcomes :
       auth' = Rendered(initializeAuthFinally(
                 [auth EXCEPT !.user = IF outcome = "returned" THEN session ELSE NoUser,
                              !.pc = "none"],
                 "attempt"))
  /\ UNCHANGED <<clears, lastSuccess, store, served, job, appVars, clientVars, concVars>>

\* the listener of onAuthStateChange is called with the session of the
\* browser
AuthStateChange ==
  /\ auth.subscribed
  /\ auth' = Rendered(SetInitialized([auth EXCEPT !.user = session,
                                                 !.isLoading = FALSE],
                                     "listener"))
  /\ UNCHANGED <<clears, lastSuccess, store, served, job, appVars, clientVars, concVars>>

\* a page with the provider is loaded, while the user signs in and out
NextAuth ==
  \/ SignIn
  \/ SignOut
  \/ Mount
  \/ SetClient
  \/ RunEffect
  \/ RefreshSessionSettled
  \/ RefreshGetUserSettled
  \/ GetSessionSettled
  \/ GetUserSettled
  \/ AuthStateChange

SpecAuth == Init /\ [][NextAuth]_vars
----------------------------------------------------------------------------
(* Properties                                                              *)

\* s is a plaintext of the interface: padded base64 of the standard alphabet,
\* bare or behind one data-URL prefix
IsPlaintext(s) ==
  /\ atob(Remainder(s)).ok
  /\ btoa(atob(Remainder(s)).bytes) = Remainder(s)

IsLowerHex(c) == \E i \in 1..16 : HexLower[i] = c

\* the bytes a decrypt or encrypt function makes of its key string
KeyDataOf(fn, key) ==
  IF fn \in {"encryptImage", "decryptImage"} THEN inlineKeyDecode(key)
  ELSE hexStringToBuffer(key)

\* the decrypt call was given the string the encrypt call returned
DecryptedStored == decCall.made /\ encCall.made /\ encCall.result.ok /\ ~wire.tampered

\* the decrypt call was given that string with one bit flipped
DecryptedTampered == decCall.made /\ encCall.made /\ encCall.result.ok /\ wire.tampered

\* C1: decrypting what encrypt returned for a plaintext P under a generated
\* key K, with the same K, returns P: the very string when P is a data URL,
\* and P with or without a data-URL prefix in front when P is bare base64.
C1_RoundTrip ==
  (/\ DecryptedStored
   /\ IsPlaintext(encCall.data)
   /\ encCall.usedKey \in GeneratedKeys
   /\ decCall.key = encCall.usedKey)
  => /\ decCall.result.ok
     /\ IF Includes(encCall.data, Marker)
        THEN decCall.result.value = encCall.data
        ELSE decCall.result.value \in {encCall.data, DefaultPrefix \o encCall.data}

C1_Witness ==
  /\ DecryptedStored
  /\ encCall.fn = "encryptImage"
  /\ decCall.fn = "decryptImage"
  /\ encCall.data = PngPrefix \o btoa(PlainBytes(MaxPlainLen))
  /\ encCall.usedKey \in GeneratedKeys
  /\ decCall.key = encCall.usedKey
  /\ decCall.result.value = encCall.data

\* C2: after one bit of the decoded nonce, ciphertext or tag of an encrypted
\* string was flipped, decrypt with the key of the encryption fails; and a
\* decrypt that succeeds with that key returns the plaintext that was
\* encrypted, never another one.
C2_TamperDetected ==
  /\ (DecryptedTampered /\ decCall.key = encCall.usedKey) => ~decCall.result.ok
  /\ (/\ decCall.made
      /\ encCall.made
      /\ encCall.result.ok
      /\ decCall.key = encCall.usedKey
      /\ decCall.result.ok)
     => Remainder(decCall.result.value) = Remainder(encCall.data)

C2_Witness ==
  /\ DecryptedTampered
  /\ decCall.key = encCall.usedKey
  /\ decCall.fn = "decryptData"
  /\ Len(encCall.data) > 0
  /\ decCall.result.error = "OperationError"

\* C3 as claimed: decrypt of an encrypted string fails for every key string
\* other than the string K it was encrypted with.
C3_AnyOtherKeyString ==
  (DecryptedStored /\ decCall.key # encCall.usedKey) => ~decCall.result.ok

\* C3, amended: decrypt of an encrypted string fails for every key string
\* whose hex decoding differs from the bytes the encryption key decodes to.
C3_OtherKeyBytes ==
  (DecryptedStored /\ KeyDataOf(decCall.fn, decCall.key) # encCall.keyData)
  => ~decCall.result.ok

C3_Witness ==
  /\ DecryptedStored
  /\ encCall.usedKey \in GeneratedKeys
  /\ decCall.key \in GeneratedKeys
  /\ decCall.key # encCall.usedKey
  /\ decCall.result.error = "OperationError"

\* C4: the output of a successful encrypt begins with the prefix of its input
\* (everything up to and including the first marker), followed by base64
\* only; for an input without marker the output is base64 only, with no
\* prefix.
C4_PrefixPreserved ==
  (encCall.made /\ encCall.result.ok)
  => LET out == encCall.result.value
     IN  IF Includes(encCall.data, Marker)
         THEN /\ StartsWith(out, FirstPrefix(encCall.data))
              /\ Len(out) > Len(FirstPrefix(encCall.data))
              /\ \A i \in (Len(FirstPrefix(encCall.data)) + 1)..Len(out) :
                   IsB64Char(out[i]) \/ out[i] = "="
         ELSE \A i \in 1..Len(out) : IsB64Char(out[i]) \/ out[i] = "="

C4_Witness ==
  /\ encCall.made
  /\ encCall.result.ok
  /\ encCall.fn = "encryptImage"
  /\ FirstPrefix(encCall.data) = PngPrefix
  /\ StartsWith(encCall.result.value, PngPrefix)

\* C5: every successful decrypt, by decryptData and by decryptImage, returns
\* a data URL, and for an input without data-URL prefix the output begins
\* with "data:application/octet-stream;base64,".
C5_DefaultPrefix ==
  (decCall.made /\ decCall.result.ok)
  => /\ StartsWith(decCall.result.value, <<"d", "a", "t", "a", ":">>)
     /\ ~Includes(decCall.data, Marker) => StartsWith(decCall.result.value, DefaultPrefix)

\* C6: decrypt of a payload that decodes to fewer than 13 bytes (and is not
\* blank) reports "too short", whatever the key argument is.
C6_TooShortForEveryKey ==
  (/\ decCall.made
   /\ ~IsBlank(SplitPayload(decCall.data))
   /\ atob(SplitPayload(decCall.data)).ok
   /\ Len(atob(SplitPayload(decCall.data)).bytes) < IvLength + 1)
  => decCall.result.error = "Encrypted data is too short"

\* C7: generateEncryptionKey returns 64 characters, all of 0-9a-f, and both
\* hex decoders of the repository turn them back into the 32 bytes drawn.
C7_KeyFormat ==
  genCall.made
  => /\ Len(genCall.drawn) = KeyLength
     /\ Len(genCall.key) = 2 * KeyLength
     /\ \A i \in 1..Len(genCall.key) : IsLowerHex(genCall.key[i])
     /\ hexStringToBuffer(genCall.key) = genCall.drawn
     /\ inlineKeyDecode(genCall.key) = genCall.drawn
     /\ genCall.key \in GeneratedKeys

C7_Witness ==
  /\ genCall.made
  /\ \E i \in 1..Len(genCall.drawn) : genCall.drawn[i] < 16
  /\ \E i \in 1..Len(genCall.drawn) : genCall.drawn[i] > 159
  /\ hexStringToBuffer(genCall.key) = genCall.drawn

\* C8 as claimed: no two encrypt calls under the same key use the same nonce.
C8_NonceNeverReused ==
  \A i, j \in 1..Len(history) :
    (/\ i < j
     /\ history[i].ok
     /\ history[j].ok
     /\ history[i].keyData = history[j].keyData)
    => history[i].iv # history[j].iv

\* C8, amended: every encrypted string begins with the nonce drawn in its
\* call, and two encryptions of the same input under the same key whose
\* nonces differ yield different strings.
C8_FreshNonceInBlob ==
  /\ \A i \in 1..Len(history) :
       history[i].ok
       => SliceIv(atob(Remainder(history[i].blob)).bytes) = history[i].iv
  /\ \A i, j \in 1..Len(history) :
       (/\ history[i].ok
        /\ history[j].ok
        /\ history[i].keyData = history[j].keyData
        /\ history[i].data = history[j].data
        /\ history[i].iv # history[j].iv)
       => history[i].blob # history[j].blob

C8_Witness ==
  /\ Len(history) = 2
  /\ history[1].ok
  /\ history[2].ok
  /\ history[1].keyData = history[2].keyData
  /\ history[1].data = history[2].data
  /\ history[1].iv # history[2].iv
  /\ history[1].blob # history[2].blob

\* C9: an encrypt call that was given no key returns, with the encrypted
\* string, the key it generated.
C9_GeneratedKeyReturned ==
  (encCall.made /\ encCall.result.ok /\ ~encCall.keyArg.given)
  => encCall.retKey = SomeKey(encCall.usedKey)

\* C10: encrypt fails for every key argument whose hex decoding is not
\* exactly 32 bytes.
C10_KeyLengthRejected ==
  (/\ encCall.made
   /\ encCall.keyArg.given
   /\ Len(KeyDataOf(encCall.fn, encCall.keyArg.str)) # KeyLength)
  => ~encCall.result.ok

\* a hex string no byte sequence is written as: odd length, or a character
\* that is no hex digit
MalformedHex(s) == Len(s) % 2 = 1 \/ \E i \in 1..Len(s) : ~IsHexDigit(s[i])

\* C11: hex decoding fails for every key string of odd length or with a
\* non-hex character and returns no bytes for it, so a decrypt call that is
\* given such a key fails.
C11_MalformedHexRejected ==
  (decCall.made /\ MalformedHex(decCall.key)) => ~decCall.result.ok

\* C12: no decode operation produces an empty byte sequence: encrypt of an
\* input whose payload is the empty string fails instead of encrypting zero
\* bytes.
C12_EmptyPayloadRejected ==
  (encCall.made /\ IsEmptyString(Remainder(encCall.data)))
  => (~encCall.result.ok /\ encCall.steps = << >>)

\* the inputs the validation of a call has to reject: a malformed key string,
\* a payload that is not base64, an empty or blank payload
Malformed(data, key) ==
  \/ MalformedHex(key)
  \/ ~atob(Remainder(data)).ok
  \/ IsEmptyString(Remainder(data))
  \/ IsBlank(Remainder(data))

\* C13: an encrypt or decrypt call with a malformed key, malformed base64 or
\* an empty or blank payload fails before it has called importKey, encrypt or
\* decrypt, and returns nothing.
C13_ValidationBeforeCrypto ==
  /\ (encCall.made /\ encCall.keyArg.given /\ Malformed(encCall.data, encCall.keyArg.str))
     => (~encCall.result.ok /\ encCall.steps = << >>)
  /\ (decCall.made /\ Malformed(decCall.data, decCall.key))
     => (~decCall.result.ok /\ decCall.steps = << >>)

\* C14: the split of an encrypt input with a marker yields the text up to and
\* including the first marker and all of the rest as payload, so that prefix
\* and payload together are the input; without marker the prefix is empty
\* and the payload the whole input.
C14_SplitIsLossless ==
  encCall.made
  => /\ SplitPrefix(encCall.data) \o SplitPayload(encCall.data) = encCall.data
     /\ SplitPrefix(encCall.data) = FirstPrefix(encCall.data)
     /\ SplitPayload(encCall.data) = Remainder(encCall.data)

\* C15: the payload of what encrypt returns for a plaintext of n bytes
\* decodes to 12 + n + 16 bytes: the nonce of the call, then the AES-GCM
\* output for the plaintext under that nonce; and decrypt with the key of the
\* call, reading the nonce from those first 12 bytes, opens it.
C15_Framing ==
  /\ (encCall.made /\ encCall.result.ok /\ atob(Remainder(encCall.data)).ok)
     => LET plain == atob(Remainder(encCall.data)).bytes
            framed == atob(Remainder(encCall.result.value)).bytes
        IN  /\ Len(framed) = IvLength + Len(plain) + TagLength
            /\ Slice(framed, 1, IvLength) = encCall.iv
            /\ Slice(framed, IvLength + 1, Len(framed))
                 = GcmSeal(encCall.keyData, encCall.iv, plain)
  /\ (DecryptedStored /\ decCall.key = encCall.usedKey)
     => (decCall.result.ok /\ decCall.steps = <<"importKey", "decrypt">>)

C15_Witness ==
  /\ DecryptedStored
  /\ decCall.key = encCall.usedKey
  /\ decCall.result.ok
  /\ encCall.data = PngPrefix \o btoa(PlainBytes(MaxPlainLen))
  /\ Len(atob(Remainder(encCall.result.value)).bytes) = IvLength + MaxPlainLen + TagLength
  /\ Slice(atob(Remainder(wire.blob)).bytes, 1, IvLength) = encCall.iv

\* C16: decrypt of the empty string, and of an input whose payload (what
\* follows the data-URL prefix, if there is one) is empty or blank, fails
\* with the error of its input check and calls no crypto.subtle operation.
C16_MissingPayloadRejected ==
  (/\ decCall.made
   /\ \/ IsEmptyString(decCall.data)
      \/ IsEmptyString(Remainder(decCall.data))
      \/ IsBlank(Remainder(decCall.data)))
  => /\ ~decCall.result.ok
     /\ decCall.result.error
          = (IF IsEmptyString(decCall.data) THEN "No encrypted data provided"
             ELSE "Invalid base64 data")
     /\ decCall.steps = << >>

C16_Witness ==
  /\ decCall.made
  /\ decCall.data = <<" ">>
  /\ decCall.key \in GeneratedKeys
  /\ decCall.result.error = "Invalid base64 data"
  /\ decCall.steps = << >>

\* the decrypt call was given the string the encrypt call returned, behind
\* another prefix or none
DecryptedReprefixed ==
  /\ decCall.made
  /\ encCall.made
  /\ encCall.result.ok
  /\ ~wire.tampered
  /\ wire.blob # encCall.result.value

\* C17: every concurrent encrypt or decrypt call, however its steps are
\* interleaved with those of the other calls, returns what it returns when
\* it runs alone with the same arguments and the same nonce.
C17_SameResultAsAlone ==
  \A c \in CallIds : asyncCalls[c].pc = "done" => asyncCalls[c].result = Alone(asyncCalls[c])

C17_Witness ==
  /\ \A c \in CallIds : asyncCalls[c].pc = "done" /\ asyncCalls[c].overlapped /\ asyncCalls[c].result.ok
  /\ asyncCalls[1].fn = "encryptData"
  /\ asyncCalls[2].fn = "decryptImage"
  /\ asyncCalls[2].result.value = ConcPlain

\* C18: after the prefix of an encrypted string was replaced or stripped,
\* decrypt with the key of the encryption succeeds and returns the payload
\* that was encrypted, behind the replaced prefix, or behind the default
\* prefix when the prefix was stripped.
C18_PrefixSwapUndetected ==
  (DecryptedReprefixed /\ decCall.key = encCall.usedKey)
  => /\ decCall.result.ok
     /\ Remainder(decCall.result.value) = Remainder(encCall.data)
     /\ FirstPrefix(decCall.result.value)
          = (IF Includes(wire.blob, Marker) THEN FirstPrefix(wire.blob) ELSE DefaultPrefix)

\* C19: the image records returned by a getImages call that was made while
\* a user was signed in belong to that user, never to another user who was
\* signed in when they were fetched.
C19_CacheIsolation ==
  (returned.made /\ returned.user \in Users)
  => \A r \in returned.data : r.userId = returned.user

\* C20: GET /api/nillion/images/[id] answers success with image data only to
\* an authenticated user for a record of its own; and when no awaited call
\* throws, it answers 401 without user, else 404 without record, else 403
\* for the record of another user, else 200 with the record.
C20_OwnershipCheck ==
  response.made
  => /\ response.success
        => /\ response.user # NoUser
           /\ response.status = 200
           /\ response.data = {r \in store :
                                 r._id = response.id /\ r.userId = response.user}
           /\ response.data # {}
     /\ ~response.success => response.data = {}
     /\ response.threw = "none"
        => response.status
             = (IF response.user = NoUser THEN 401
                ELSE IF \A r \in store : r._id # response.id THEN 404
                ELSE IF \E r \in store :
                          r._id = response.id /\ r.userId # response.user THEN 403
                ELSE 200)

C20_Witness ==
  /\ response.made
  /\ response.user = "A"
  /\ response.id = "img-3"
  /\ response.threw = "none"
  /\ response.status = 403
  /\ response.data = {}

\* C21: every record was written by a request of a signed-in user and is
\* owned by that user, and GET /api/nillion/images/[id] returns a record only
\* to the user whose upload request wrote it.
C21_OnlyOwnUploads ==
  /\ \A r \in store : r.writer # NoUser /\ r.userId = r.writer
  /\ response.success => \A r \in response.data : r.writer = response.user

\* the middleware has obtained a session for the request it answered
SessionObtained == served.outcome = "returned" /\ served.user # NoUser

\* C22: a request for a path other than "/" that starts neither with "/auth"
\* nor with "/api/" passes the middleware exactly when a session was
\* obtained and is redirected to /auth/login otherwise; a request for a path
\* that starts with "/auth" is redirected to "/" exactly when a session was
\* obtained, and passes otherwise.
C22_RouteProtection ==
  served.made
  => /\ (/\ served.path # PathHome
         /\ ~StartsWith(served.path, PathAuth)
         /\ ~StartsWith(served.path, PathApiSlash))
        => IF SessionObtained
           THEN served.action = "next"
           ELSE served.action = "redirect" /\ served.target = PathLogin
     /\ StartsWith(served.path, PathAuth)
        => IF SessionObtained
           THEN served.action = "redirect" /\ served.target = PathHome
           ELSE served.action = "next"

C22_Witness ==
  /\ served.made
  /\ served.path = PathGallery
  /\ served.user = "A"
  /\ served.outcome = "error"
  /\ served.action = "redirect"
  /\ served.target = PathLogin


\* C23: handleSubmit never passes the image itself to uploadToPinata: the
\* Pinata upload is called only after encryptImage has resolved, with its
\* output, which is not the image and which decryptImage turns back into the
\* image under the generated key; the Nillion upload is called only after the
\* Pinata upload has succeeded; when key generation or encryption fails,
\* neither upload is made and isUploading is false again
C23_EncryptBeforeUpload ==
  /\ job.pinata.called =>
        /\ job.encrypted = "ok"
        /\ \E i \in 1..Len(job.steps) :
              /\ job.steps[i] = "encryptImage"
              /\ \A k \in 1..i : job.steps[k] # "uploadToPinata"
        /\ job.pinata.data = job.finalImageData
        /\ job.pinata.data # job.imagePreview
        /\ \E n \in IvSeeds :
              Ok(job.pinata.data) = encryptImage(job.imagePreview, job.generated, DrawIv(n))
        /\ decryptImage(job.pinata.data, job.generated) = Ok(job.imagePreview)
  /\ job.nillion.called => job.pinata.called /\ job.pinata.ok
  /\ job.encrypted = "failed" =>
        ~job.pinata.called /\ ~job.nillion.called /\ ~job.isUploading

\* a submission has run to its end: the image was encrypted, the encrypted
\* string went to Pinata, the item went to Nillion and the cache was cleared
C23_Witness ==
  /\ job.pc = "done"
  /\ job.nillion.ok
  /\ job.steps = <<"generateEncryptionKey", "encryptImage", "uploadToPinata",
                   "fetch", "clearCache">>
  /\ Len(job.imagePreview) > Len(PngPrefix)

\* a successful request has completed since the last clearCache, and less
\* than CACHE_DURATION has passed since it was sent
RecentSuccess == lastSuccess.some /\ clock - lastSuccess.start < CACHE_DURATION

\* a getImages call takes the cache in this step
CacheHit == returned' # returned /\ returned'.cached

\* a getImages call sends its request in this step
ApiCall == \E f \in FetchIds : fetch[f].pc = "idle" /\ fetch'[f].pc = "sent"

\* C24: a getImages call made less than CACHE_DURATION after the start of
\* the last successful fetch returns the cached records, those of that fetch,
\* without calling the API; a call made later, or after clearCache, calls the
\* API; and the cache is written only by a response that was parsed (and
\* emptied only by clearCache)
C24_ImageCache ==
  [][/\ CacheHit => RecentSuccess /\ ~ApiCall /\ returned'.data = lastSuccess.data
     /\ ApiCall => ~RecentSuccess
     /\ (cachedImages' # cachedImages \/ lastFetchTime' # lastFetchTime) =>
          \/ cachedImages' = NoCache /\ clears' = clears + 1
          \/ \E f \in FetchIds :
               /\ fetch[f].pc = "answered" /\ fetch'[f].pc = "idle"
               /\ fetch[f].answer.parsed /\ ResponseOk(fetch[f].answer.status)
               /\ cachedImages'.filled
               /\ cachedImages'.data = fetch[f].answer.data
               /\ lastFetchTime' = fetch[f].now]_vars

\* after a clearCache a call has fetched anew, and the next call has taken
\* the cache that fetch filled
C24_Witness ==
  /\ clears > 0
  /\ returned.made /\ returned.cached
  /\ returned.requestEpoch = clears
  /\ returned.data # {}

\* C25: a getImages call that starts after a clearCache call returns data of
\* a request that was sent after that clearCache call, also when another
\* getImages call was in flight while clearCache ran
C25_NoStaleAfterClear ==
  returned.made => returned.requestEpoch >= returned.callEpoch

\* a failed answer: no response, an error status, or a body that cannot be
\* parsed
Failed(answer) ==
  answer.status = 0 \/ ~ResponseOk(answer.status) \/ ~answer.parsed

\* C26: getImages never rejects: when the fetch fails, the status is an
\* error status or the body cannot be parsed, the promise resolves to a
\* response without data and the cache is left as it is; authError is true
\* only for status 401
C26_NeverRejects ==
  [][\A f \in FetchIds :
       (fetch[f].pc = "answered" /\ fetch'[f].pc = "idle") =>
         /\ returned'.settled = "resolved"
         /\ returned'.authError => fetch[f].answer.status = 401
         /\ Failed(fetch[f].answer) =>
              /\ returned'.data = {}
              /\ cachedImages' = cachedImages
              /\ lastFetchTime' = lastFetchTime]_vars

\* a call has failed with 401 while the cache of an earlier call is kept
C26_Witness ==
  /\ returned.made /\ ~returned.cached
  /\ returned.settled = "resolved"
  /\ returned.status = 401 /\ returned.authError /\ returned.data = {}
  /\ cachedImages.filled /\ cachedImages.data # {}

\* the client is set, the effect has run, and neither refreshUser nor
\* initializeAuth awaits an auth call
AuthSettled == auth.client /\ ~auth.effectDue /\ auth.pc = "none"

\* C27: once the client of the provider is set, isInitialized becomes true
\* on every path of the initialization effect, also on the path of the
\* justLoggedIn flag: when the effect has run and every auth call it made has
\* returned, isInitialized is true
C27_InitializationCompletes == AuthSettled => auth.isInitialized

\* C28: a session fetch that aborts while fewer than RetryLimit retries were
\* made increments retryCount and does not set isInitialized; the fetch is
\* retried at most RetryLimit times; and initializeAuth sets isInitialized
\* only after an attempt that did not abort or when the retries are used up
C28_RetryBeforeInitialized ==
  /\ auth.retryCount <= RetryLimit
  /\ auth.retryCount <= auth.aborted
  /\ auth.attempts <= RetryLimit + 1
  /\ auth.isInitialized => auth.initializedBy \in {"attempt", "exhausted", "listener"}
====
